---- MODULE Spec2Model ----
(***************************************************************************)
(* Quiz Craft / TutorExam backend: the exam and response REST handlers     *)
(* (examController.js, responseController.js) with the validation chains   *)
(* of their routes, over the relational tables exams, questions,           *)
(* responses and answers.                                                  *)
(*                                                                         *)
(* Every handler is one action: the request validation the route runs      *)
(* before the controller, the controller's lookups and early returns, and  *)
(* the rows it writes.  `reply` holds the last request handled together    *)
(* with the JSON answer the handler sent for it.                           *)
(*                                                                         *)
(* Sign-in is modelled with the users table and the state of one browser:  *)
(* the page it shows, the query of its URL, its localStorage and cookies.  *)
(*                                                                         *)
(* Where requests overlap, the submission handler and the Google verify    *)
(* callback are also given await by await, with inFlight holding the       *)
(* requests begun, and the exam page is followed through one session.      *)
(*                                                                         *)
(* Texts are sequences of one-character strings, so that trimming and      *)
(* exact comparison are computed and not assumed.                          *)
(***************************************************************************)
EXTENDS Integers, Sequences, FiniteSets, TLC

VARIABLES exams, questions, responses, answers, nextId, reply, users, browser, inFlight

vars == <<exams, questions, responses, answers, nextId, reply, users, browser, inFlight>>

----------------------------------------------------------------------------
(* Bounds of the model *)

MaxExams == 1
MaxPublished == 2
MaxQuestions == 2
MaxResponses == 2
MaxAnswers == 2
MaxUsers == 2

\* submissions begun in one run, finished or not
MaxInFlight == 2

\* sign-ins with Google begun in one run, finished or not
MaxSignIns == 2

\* ticks of the countdown of an exam with a time limit
MaxTime == 2

----------------------------------------------------------------------------
(* Values *)

Users == {"u1", "u2"}

QuestionTypes == {"MULTIPLE_CHOICE", "TRUE_FALSE", "SHORT_ANSWER", "ESSAY"}

\* A JavaScript value that is a string, null or undefined.
Undefined == [kind |-> "undefined", text |-> <<>>]
Null == [kind |-> "null", text |-> <<>>]
Str(t) == [kind |-> "string", text |-> t]

\* A JavaScript value that is a number, a numeric string, null or undefined.
\* frac is TRUE for a number with a fractional part (num + 1/2).
NoNum == [kind |-> "undefined", num |-> 0, frac |-> FALSE]
NullNum == [kind |-> "null", num |-> 0, frac |-> FALSE]
Int32(n) == [kind |-> "number", num |-> n, frac |-> FALSE]
Half(n) == [kind |-> "number", num |-> n, frac |-> TRUE]
NumStr(n) == [kind |-> "string", num |-> n, frac |-> FALSE]

\* JavaScript truthiness of a string-or-null value (the operand of || and &&).
Truthy(v) == v.kind = "string" /\ v.text # <<>>

\* v || null
OrNull(v) == IF Truthy(v) THEN v ELSE Null

IsWhitespace(c) == c = " "

RECURSIVE TrimLeft(_)
TrimLeft(t) ==
  IF t # <<>> /\ IsWhitespace(Head(t)) THEN TrimLeft(Tail(t)) ELSE t

RECURSIVE TrimRight(_)
TrimRight(t) ==
  IF t # <<>> /\ IsWhitespace(t[Len(t)])
    THEN TrimRight(SubSeq(t, 1, Len(t) - 1))
    ELSE t

\* express-validator's trim() sanitizer
Trim(t) == TrimRight(TrimLeft(t))

\* Math.floor in place of Math.round
MathFloor100(s, t) == (100 * s) \div t

\* Math.round(x) for x = 100 * s / t >= 0: the nearest integer, halves up.
\* For t < 40 the double (s / t) * 100 rounds as the exact quotient does.
MathRound100(s, t) == (200 * s + t) \div (2 * t)

----------------------------------------------------------------------------
(* Tables *)

ExamIds == DOMAIN exams
QuestionIds == DOMAIN questions
ResponseIds == DOMAIN responses
AnswerIds == DOMAIN answers

\* question rows sorted by their order column, ascending
RECURSIVE SortByOrder(_)
SortByOrder(ids) ==
  IF ids = {} THEN <<>>
  ELSE LET q == CHOOSE x \in ids :
                  \A y \in ids : questions[x].order <= questions[y].order
       IN  <<[id |-> q] @@ questions[q]>> \o SortByOrder(ids \ {q})

\* the questions of every exam, the examId filter lost
OrderedQuestionsOfAnyExam(examId) == SortByOrder(QuestionIds)

\* include: { questions: { orderBy: { order: 'asc' } } }
OrderedQuestions(examId) ==
  SortByOrder({q \in QuestionIds : questions[q].examId = examId})

\* the lookup by share link alone, isActive not part of the where clause
FindExamByLink(shareLink) == {e \in ExamIds : exams[e].shareLink = shareLink}

\* prisma.exam.findUnique({ where: { shareLink, isActive: true } })
FindActiveExam(shareLink) ==
  {e \in ExamIds : exams[e].shareLink = shareLink /\ exams[e].isActive}

\* the lookup by id alone, authorId not part of the where clause
FindExamById(id, authorId) == {e \in ExamIds : e = id}

\* prisma.exam.findFirst({ where: { id, authorId } })
FindOwnExam(id, authorId) ==
  {e \in ExamIds : e = id /\ exams[e].authorId = authorId}

AnswersOf(responseId) ==
  {a \in AnswerIds : answers[a].responseId = responseId}

----------------------------------------------------------------------------
(* Request inputs *)

\* questions[i] of a createExam body that examValidation accepts:
\* correctAnswer absent, empty or a text, points absent or a number
CorrectAnswerInputs == {Undefined, Str(<<>>), Str(<<"B">>), Str(<<" ", "B">>)}

PointsInputs == {NoNum, Int32(5), Int32(10)}

QuestionInputs ==
  [type : QuestionTypes, correctAnswer : CorrectAnswerInputs, points : PointsInputs]

\* the same, for the runs that follow exams and responses over many requests
FewQuestionInputs ==
  [type : {"MULTIPLE_CHOICE", "ESSAY"}, correctAnswer : {Str(<<"B">>)},
   points : {NoNum}]

ListsOf(inputs) == UNION {[1..n -> inputs] : n \in 0..MaxQuestions}

\* a createExam body that examValidation rejects (points below 1)
InvalidQuestionLists ==
  {<<[type |-> "ESSAY", correctAnswer |-> Undefined, points |-> Int32(0)]>>}

\* answers[i].answer of a submission, as sent
AnswerTexts == {<<"B">>, <<"b">>, <<" ", "B", " ">>, <<" ">>}

FewAnswerTexts == {<<"B">>}

\* the answers array of a submission; 0 is the id of no question, and the
\* share link of no exam
SentAnswers(texts) ==
  UNION {[1..n -> [questionId : QuestionIds \cup {0}, answer : texts]] :
           n \in 0..MaxAnswers}

\* the questionId of an answer sent with an empty id
EmptyId == 0 - 1

\* submissions that submitResponseValidation rejects: an empty questionId, an
\* empty or blank answer text, alone or after an answer that is in order
InvalidSubmissions ==
  {<<[questionId |-> EmptyId, answer |-> <<"B">>]>>,
   <<[questionId |-> 1, answer |-> <<" ">>]>>,
   <<[questionId |-> 1, answer |-> <<"B">>], [questionId |-> 2, answer |-> <<>>]>>}

\* isActive of an updateExam body; "yes" is not a boolean
IsActiveInputs == {"undefined", "true", "false", "yes"}

\* score of an updateResponseScore body
ScoreInputs == {NoNum, NullNum, Int32(0 - 1), Int32(20), Half(1), NumStr(5)}

\* the Google profile handed to the verify callback: profile.id,
\* profile.displayName, profile.emails[0].value, profile.photos[0]?.value
\* ("none": the profile has no photo)
Profiles ==
  [id : {"g1", "g2"}, displayName : {"G"}, email : {"a@x", "b@x"},
   photo : {"none", "p1"}]

NoProfile == [id |-> "none", displayName |-> "", email |-> "", photo |-> "none"]

\* the body of a registration: email, name and role, with a password
Registrations == [email : {"a@x", "b@x"}, name : {"L"}, role : {"TUTOR", "STUDENT"}]

----------------------------------------------------------------------------
(* The browser: page shown, query of the URL, localStorage, cookies, and    *)
(* the redirect a page has scheduled with setTimeout                        *)

\* a token is the id of the user it was generated for; 0 is no token, and
\* no user
NoQuery == [token |-> 0, user |-> 0, error |-> "none"]

\* a user parameter that JSON.parse rejects
Malformed == 0 - 1

\* the queries /auth/callback can be opened with
Queries ==
  {[token |-> 0, user |-> 0, error |-> "oauth_failed"],
   [token |-> 1, user |-> 0, error |-> "none"],
   [token |-> 1, user |-> Malformed, error |-> "none"],
   [token |-> 1, user |-> 1, error |-> "none"]}

\* data.exam of a reply that carries no exam
NoExam ==
  [id |-> 0, authorId |-> "", shareLink |-> 0, isActive |-> FALSE,
   questions |-> <<>>]

\* timeLeft of an exam page whose exam has no time limit (null)
NoTime == 0 - 1

\* the exam page before its exam is loaded: the state of the component, the
\* values its running interval captured when its effect was set up (closure),
\* the submissions it has posted and the number of them whose answer it has
\* received
NoExamPage ==
  [exam |-> NoExam, timeLeft |-> NoTime, examStarted |-> FALSE,
   examSubmitted |-> FALSE, isSubmitting |-> FALSE, error |-> FALSE,
   answers |-> <<>>,
   closure |-> [examSubmitted |-> FALSE, answers |-> <<>>],
   posted |-> <<>>, received |-> 0]

\* the state of a summary page (students, analytics) before its data is
\* loaded: allResponses is the set of responses its summaries are folded over
NoSummary ==
  [page |-> "none", user |-> "", error |-> FALSE, allResponses |-> {}]

\* previous: the page whose router.push led to the page shown
NoBrowser ==
  [location |-> "blank", previous |-> "none", status |-> "ready",
   query |-> NoQuery, localStorage |-> [token |-> 0, user |-> 0],
   cookie |-> 0, pending |-> "none", summary |-> NoSummary,
   examPage |-> NoExamPage]

----------------------------------------------------------------------------
(* The reply of a handler, with the request it answers *)

NoReply ==
  [op |-> "none", status |-> 0, caller |-> "", target |-> 0,
   sent |-> <<>>, given |-> NoNum, isActive |-> "undefined", responseId |-> 0, score |-> 0,
   totalPoints |-> 0, percentage |-> 0, processedAnswers |-> <<>>,
   answers |-> <<>>, profile |-> NoProfile, token |-> 0, questions |-> <<>>,
   exam |-> NoExam]

Reply(op, status, caller, target) ==
  [NoReply EXCEPT !.op = op, !.status = status, !.caller = caller,
                  !.target = target]

----------------------------------------------------------------------------
(* Request validation (express-validator chains of the routes) *)

\* examValidation: questions.*.type isIn the four types, questions.*.points
\* optional and isInt({ min: 1, max: 100 })
ExamBodyValid(qs) ==
  \A i \in 1..Len(qs) :
    /\ qs[i].type \in QuestionTypes
    /\ \/ qs[i].points.kind = "undefined"
       \/ /\ qs[i].points.kind = "number"
          /\ ~qs[i].points.frac
          /\ qs[i].points.num >= 1
          /\ qs[i].points.num <= 100

\* updateExamValidation: isActive optional and isBoolean()
UpdateExamBodyValid(isActive) == isActive \in {"undefined", "true", "false"}

\* the check of the answers array alone
SubmitBodyValidArrayOnly(sent) == Len(sent) >= 1

\* submitResponseValidation: answers isArray({ min: 1 }), every questionId
\* isLength({ min: 1 }), every answer text trimmed and then isLength({ min: 1 })
SubmitBodyValid(sent) ==
  /\ Len(sent) >= 1
  /\ \A i \in 1..Len(sent) : sent[i].questionId # EmptyId
  /\ \A i \in 1..Len(sent) : Len(Trim(sent[i].answer)) >= 1

\* the body as sent, no sanitizer applied
Unsanitized(sent) == sent

\* the body the controller reads: the trim() sanitizer has replaced each
\* answers[i].answer by its trimmed text
Sanitized(sent) ==
  [i \in 1..Len(sent) |->
     [questionId |-> sent[i].questionId, answer |-> Trim(sent[i].answer)]]

\* updateScoreValidation: score isInt({ min: 0 }).  The chain records its
\* error on the request; updateResponseScore never reads validationResult.
ScoreBodyValid(score) ==
  /\ score.kind \in {"number", "string"}
  /\ ~score.frac
  /\ score.num >= 0

----------------------------------------------------------------------------
(* Grading (submitResponse, the loop over exam.questions) *)

\* answers.find(a => a.questionId === question.id): the index of the first
\* match, 0 when there is none
FindAnswer(body, questionId) ==
  LET hits == {i \in 1..Len(body) : body[i].questionId = questionId}
  IN  IF hits = {} THEN 0 ELSE CHOOSE i \in hits : \A j \in hits : i <= j

LowerCase(t) == [i \in 1..Len(t) |-> IF t[i] = "B" THEN "b" ELSE t[i]]

\* the comparison made on lower-cased texts
IsCorrectIgnoringCase(question, studentAnswer) ==
  IF question.type = "MULTIPLE_CHOICE" \/ question.type = "TRUE_FALSE"
    THEN /\ Truthy(question.correctAnswer)
         /\ LowerCase(studentAnswer.answer) =
              LowerCase(question.correctAnswer.text)
    ELSE FALSE

\* the comparison made for every question type
IsCorrectOfAnyType(question, studentAnswer) ==
  /\ Truthy(question.correctAnswer)
  /\ studentAnswer.answer = question.correctAnswer.text

\* the value of isCorrect for a matched answer
IsCorrect(question, studentAnswer) ==
  IF question.type = "MULTIPLE_CHOICE" \/ question.type = "TRUE_FALSE"
    THEN /\ Truthy(question.correctAnswer)
         /\ studentAnswer.answer = question.correctAnswer.text
    ELSE FALSE

\* totalPoints += question.points moved inside if (studentAnswer)
LoopBodyCountingAnswered(acc, question, body) ==
  LET k == FindAnswer(body, question.id)
      isCorrect == k # 0 /\ IsCorrect(question, body[k])
  IN  [score |-> IF isCorrect THEN acc.score + question.points ELSE acc.score,
       totalPoints |-> IF k = 0 THEN acc.totalPoints
                       ELSE acc.totalPoints + question.points,
       processedAnswers |->
         IF k = 0 THEN acc.processedAnswers
         ELSE Append(acc.processedAnswers,
                     [questionId |-> question.id,
                      answer |-> body[k].answer,
                      isCorrect |-> isCorrect])]

\* score grows once for every submitted answer that is correct, not once for
\* the question
LoopBodyScoringEveryAnswer(acc, question, body) ==
  LET k == FindAnswer(body, question.id)
      isCorrect == k # 0 /\ IsCorrect(question, body[k])
      correct == {i \in 1..Len(body) :
                    /\ body[i].questionId = question.id
                    /\ IsCorrect(question, body[i])}
  IN  [score |-> acc.score + Cardinality(correct) * question.points,
       totalPoints |-> acc.totalPoints + question.points,
       processedAnswers |->
         IF k = 0 THEN acc.processedAnswers
         ELSE Append(acc.processedAnswers,
                     [questionId |-> question.id,
                      answer |-> body[k].answer,
                      isCorrect |-> isCorrect])]

\* the loop body for one question: totalPoints grows by its points; a matched
\* answer is pushed with its isCorrect, and score grows when it is correct
LoopBody(acc, question, body) ==
  LET k == FindAnswer(body, question.id)
      isCorrect == k # 0 /\ IsCorrect(question, body[k])
  IN  [score |-> IF isCorrect THEN acc.score + question.points ELSE acc.score,
       totalPoints |-> acc.totalPoints + question.points,
       processedAnswers |->
         IF k = 0 THEN acc.processedAnswers
         ELSE Append(acc.processedAnswers,
                     [questionId |-> question.id,
                      answer |-> body[k].answer,
                      isCorrect |-> isCorrect])]

\* for (const question of exam.questions): the state after the first n questions
RECURSIVE GradeLoop(_, _, _)
GradeLoop(qs, body, n) ==
  IF n = 0
    THEN [score |-> 0, totalPoints |-> 0, processedAnswers |-> <<>>]
    ELSE LoopBody(GradeLoop(qs, body, n - 1), qs[n], body)

\* the answers emitted by a walk over the submitted answers, not over the
\* questions
GradeInSubmissionOrder(qs, body) ==
  LET g == GradeLoop(qs, body, Len(qs))
      Matched(a) == \E i \in 1..Len(qs) : qs[i].id = a.questionId
      matched == SelectSeq(body, Matched)
      QuestionOf(a) == qs[CHOOSE i \in 1..Len(qs) : qs[i].id = a.questionId]
  IN  [score |-> g.score,
       totalPoints |-> g.totalPoints,
       processedAnswers |->
         [k \in 1..Len(matched) |->
            [questionId |-> matched[k].questionId,
             answer |-> matched[k].answer,
             isCorrect |-> IsCorrect(QuestionOf(matched[k]), matched[k])]]]

Grade(qs, body) == GradeLoop(qs, body, Len(qs))

\* totalPoints > 0 ? Math.round((score / totalPoints) * 100) : 0
Percentage(score, totalPoints) ==
  IF totalPoints > 0 THEN MathRound100(score, totalPoints) ELSE 0

----------------------------------------------------------------------------
(* Initial state: empty tables *)

Init ==
  /\ exams = <<>>
  /\ questions = <<>>
  /\ responses = <<>>
  /\ answers = <<>>
  /\ nextId = [exam |-> 1, question |-> 1, response |-> 1, answer |-> 1]
  /\ reply = NoReply
  /\ users = <<>>
  /\ browser = NoBrowser
  /\ inFlight = <<>>

----------------------------------------------------------------------------
(* POST /api/exams *)

\* where the database fails during a transaction of two writes
Faults == {"none", "first", "second"}

\* two writes that are not wrapped in a transaction: the first one stays when
\* the second one fails
WithoutTransaction(fault) ==
  IF fault = "none" THEN "all"
  ELSE IF fault = "second" THEN "first"
  ELSE "nothing"

\* prisma.$transaction(async (tx) => { ... }): which of its writes persist.  A
\* write that throws rejects the callback and the transaction is rolled back.
Transaction(fault) == IF fault = "none" THEN "all" ELSE "nothing"

\* the rows with the array index of questions.map as order
QuestionRowsZeroBased(qs, examId) ==
  [i \in 1..Len(qs) |->
     [type |-> qs[i].type,
      correctAnswer |-> OrNull(qs[i].correctAnswer),
      points |-> IF qs[i].points.kind = "number" /\ qs[i].points.num # 0
                   THEN qs[i].points.num ELSE 1,
      order |-> i - 1,
      examId |-> examId]]

\* questions.map((q, index) => ({ ... })): the question rows of a new exam
QuestionRows(qs, examId) ==
  [i \in 1..Len(qs) |->
     [type |-> qs[i].type,
      correctAnswer |-> OrNull(qs[i].correctAnswer),
      points |-> IF qs[i].points.kind = "number" /\ qs[i].points.num # 0
                   THEN qs[i].points.num ELSE 1,
      order |-> i,
      examId |-> examId]]

createExamWith(authorId, qs, fault) ==
  IF ~ExamBodyValid(qs)
    THEN /\ reply' = Reply("createExam", 400, authorId, 0)
         /\ UNCHANGED <<exams, questions, responses, answers, nextId, users, browser, inFlight>>
    ELSE
      LET id == nextId.exam
          rows == QuestionRows(qs, id)
          first == nextId.question
          \* tx.question.createMany runs only if (questions.length > 0)
          failed == IF fault = "second" /\ Len(qs) = 0 THEN "none" ELSE fault
          persisted == Transaction(failed)
      IN
      IF persisted = "nothing"
        THEN /\ reply' = Reply("createExam", 500, authorId, 0)
             /\ UNCHANGED <<exams, questions, responses, answers, nextId, users, browser, inFlight>>
      ELSE IF persisted = "first"
        THEN /\ exams' = exams @@ (id :> [authorId |-> authorId,
                                          shareLink |-> id,
                                          isActive |-> TRUE])
             /\ nextId' = [nextId EXCEPT !.exam = id + 1]
             /\ reply' = Reply("createExam", 500, authorId, 0)
             /\ UNCHANGED <<questions, responses, answers, users, browser, inFlight>>
      ELSE
          /\ exams' = exams @@ (id :> [authorId |-> authorId,
                                       shareLink |-> id,
                                       isActive |-> TRUE])
          /\ questions' =
               questions @@ [q \in first..(first + Len(qs) - 1) |->
                               rows[q - first + 1]]
          /\ nextId' = [nextId EXCEPT !.exam = id + 1,
                                      !.question = first + Len(qs)]
          /\ reply' = [Reply("createExam", 201, authorId, id)
                         EXCEPT !.questions = qs]
          /\ UNCHANGED <<responses, answers, users, browser, inFlight>>

\* createExam when the database does not fail
createExam(authorId, qs) == createExamWith(authorId, qs, "none")

----------------------------------------------------------------------------
(* PUT /api/exams/:id *)

updateExam(id, authorId, isActive) ==
  IF ~UpdateExamBodyValid(isActive)
    THEN /\ reply' = [Reply("updateExam", 400, authorId, id)
                        EXCEPT !.isActive = isActive]
         /\ UNCHANGED <<exams, questions, responses, answers, nextId, users, browser, inFlight>>
    ELSE IF FindOwnExam(id, authorId) = {}
    THEN /\ reply' = [Reply("updateExam", 404, authorId, id)
                        EXCEPT !.isActive = isActive]
         /\ UNCHANGED <<exams, questions, responses, answers, nextId, users, browser, inFlight>>
    ELSE /\ exams' = IF isActive = "undefined" THEN exams
                     ELSE [exams EXCEPT ![id].isActive = (isActive = "true")]
         /\ reply' = [Reply("updateExam", 200, authorId, id)
                        EXCEPT !.isActive = isActive]
         /\ UNCHANGED <<questions, responses, answers, nextId, users, browser, inFlight>>

----------------------------------------------------------------------------
(* DELETE /api/exams/:id *)

\* f without the keys in gone
Without(f, gone) == [k \in DOMAIN f \ gone |-> f[k]]

\* the delete without the foreign keys of the answers table
deleteExamKeepingAnswers(id, authorId) ==
  IF FindOwnExam(id, authorId) = {}
    THEN /\ reply' = Reply("deleteExam", 404, authorId, id)
         /\ UNCHANGED <<exams, questions, responses, answers, nextId, users, browser, inFlight>>
    ELSE
      LET goneQ == {q \in QuestionIds : questions[q].examId = id}
          goneR == {r \in ResponseIds : responses[r].examId = id}
      IN  /\ exams' = Without(exams, {id})
          /\ questions' = Without(questions, goneQ)
          /\ responses' = Without(responses, goneR)
          /\ reply' = Reply("deleteExam", 200, authorId, id)
          /\ UNCHANGED <<answers, nextId, users, browser, inFlight>>

deleteExam(id, authorId) ==
  IF FindOwnExam(id, authorId) = {}
    THEN /\ reply' = Reply("deleteExam", 404, authorId, id)
         /\ UNCHANGED <<exams, questions, responses, answers, nextId, users, browser, inFlight>>
    ELSE
      \* prisma.exam.delete with the ON DELETE CASCADE foreign keys
      LET goneQ == {q \in QuestionIds : questions[q].examId = id}
          goneR == {r \in ResponseIds : responses[r].examId = id}
          goneA == {a \in AnswerIds : \/ answers[a].questionId \in goneQ
                                      \/ answers[a].responseId \in goneR}
      IN  /\ exams' = Without(exams, {id})
          /\ questions' = Without(questions, goneQ)
          /\ responses' = Without(responses, goneR)
          /\ answers' = Without(answers, goneA)
          /\ reply' = Reply("deleteExam", 200, authorId, id)
          /\ UNCHANGED <<nextId, users, browser, inFlight>>

----------------------------------------------------------------------------
(* GET /api/exams/public/:shareLink *)

\* the question with every column, as include: { questions: true } loads it
SelectAll(question) == question

\* questions: { select: { id, type, question, options, points, order } }
Select(question) ==
  [id |-> question.id, type |-> question.type, points |-> question.points,
   order |-> question.order]

\* the exam of the reply: the exam's columns and the selected columns of the
\* questions given, in their order
PublicExam(examId, qs) ==
  [id |-> examId,
   authorId |-> exams[examId].authorId,
   shareLink |-> exams[examId].shareLink,
   isActive |-> exams[examId].isActive,
   questions |-> [i \in 1..Len(qs) |-> Select(qs[i])]]

getPublicExam(shareLink) ==
  /\ reply' = IF FindActiveExam(shareLink) = {}
                 THEN Reply("getPublicExam", 404, "", shareLink)
                 ELSE LET examId == CHOOSE e \in FindActiveExam(shareLink) : TRUE
                      IN  [Reply("getPublicExam", 200, "", shareLink)
                             EXCEPT !.exam =
                               PublicExam(examId, OrderedQuestions(examId))]
  /\ UNCHANGED <<exams, questions, responses, answers, nextId, users, browser, inFlight>>

----------------------------------------------------------------------------
(* POST /api/responses/submit/:shareLink *)

submitResponse(shareLink, sent) ==
  IF ~SubmitBodyValid(sent)
    THEN /\ reply' = [Reply("submitResponse", 400, "", shareLink)
                        EXCEPT !.sent = sent]
         /\ UNCHANGED <<exams, questions, responses, answers, nextId, users, browser, inFlight>>
    ELSE IF FindActiveExam(shareLink) = {}
    THEN /\ reply' = [Reply("submitResponse", 404, "", shareLink)
                        EXCEPT !.sent = sent]
         /\ UNCHANGED <<exams, questions, responses, answers, nextId, users, browser, inFlight>>
    ELSE
      \E examId \in FindActiveExam(shareLink) :
      \E qs \in {OrderedQuestions(examId)}, body \in {Sanitized(sent)} :
      \E graded \in {Grade(qs, body)} :
      LET processedAnswers == graded.processedAnswers
          id == nextId.response
          first == nextId.answer
          \* answersData: the rows of createMany, isCorrect not among their fields
          answersData == [i \in 1..Len(processedAnswers) |->
                            [questionId |-> processedAnswers[i].questionId,
                             answer |-> processedAnswers[i].answer,
                             responseId |-> id]]
      IN  \* the transaction: the response row, then its answer rows
          /\ responses' = responses @@ (id :> [examId |-> examId,
                                               score |-> Int32(graded.score),
                                               totalPoints |-> graded.totalPoints])
          /\ answers' =
               answers @@ [a \in first..(first + Len(processedAnswers) - 1) |->
                             answersData[a - first + 1]]
          /\ nextId' = [nextId EXCEPT !.response = id + 1,
                                      !.answer = first + Len(processedAnswers)]
          /\ reply' = [Reply("submitResponse", 201, "", shareLink)
                         EXCEPT !.sent = sent,
                                !.responseId = id,
                                !.score = graded.score,
                                !.totalPoints = graded.totalPoints,
                                !.percentage =
                                  Percentage(graded.score, graded.totalPoints),
                                !.processedAnswers = processedAnswers,
                                \* completeResponse.answers, read back
                                !.answers = answersData]
          /\ UNCHANGED <<exams, questions, users, browser, inFlight>>

----------------------------------------------------------------------------
(* POST /api/responses/submit/:shareLink, await by await: the handler gives   *)
(* way to other requests while it waits for prisma.exam.findUnique, for       *)
(* prisma.$transaction and for prisma.response.findUnique.  inFlight holds    *)
(* the submissions received, each with its position and its local values,     *)
(* and with the status of its reply once it is answered.                      *)

NoRequest ==
  [op |-> "none", pc |-> "done", shareLink |-> 0, sent |-> <<>>, examId |-> 0,
   graded |-> [score |-> 0, totalPoints |-> 0, processedAnswers |-> <<>>],
   responseId |-> 0, status |-> 0, profile |-> NoProfile, user |-> 0]

\* score, totalPoints and processedAnswers kept where every request reaches
\* them: the values of the request that graded last
SharedLocals(i) == inFlight[Len(inFlight)].graded

\* let score, let totalPoints, const processedAnswers of request i
Locals(i) == inFlight[i].graded

\* rows of the answers table in the order of their ids
RECURSIVE AnswerRows(_)
AnswerRows(ids) ==
  IF ids = {} THEN <<>>
  ELSE LET a == CHOOSE x \in ids : \A y \in ids : x <= y
       IN  <<answers[a]>> \o AnswerRows(ids \ {a})

\* up to the await of the transaction: validation, the exam lookup and the
\* grading loop
submitResponseLookup(shareLink, sent) ==
  IF ~SubmitBodyValid(sent)
    THEN /\ reply' = [Reply("submitResponse", 400, "", shareLink)
                        EXCEPT !.sent = sent]
         /\ inFlight' = Append(inFlight,
                               [NoRequest EXCEPT !.op = "submitResponse",
                                                 !.shareLink = shareLink,
                                                 !.sent = sent,
                                                 !.status = 400])
         /\ UNCHANGED <<exams, questions, responses, answers, nextId, users, browser>>
    ELSE IF FindActiveExam(shareLink) = {}
    THEN /\ reply' = [Reply("submitResponse", 404, "", shareLink)
                        EXCEPT !.sent = sent]
         /\ inFlight' = Append(inFlight,
                               [NoRequest EXCEPT !.op = "submitResponse",
                                                 !.shareLink = shareLink,
                                                 !.sent = sent,
                                                 !.status = 404])
         /\ UNCHANGED <<exams, questions, responses, answers, nextId, users, browser>>
    ELSE
      \E examId \in FindActiveExam(shareLink) :
      \E qs \in {OrderedQuestions(examId)}, body \in {Sanitized(sent)} :
        /\ inFlight' = Append(inFlight,
                              [NoRequest EXCEPT !.op = "submitResponse",
                                                !.pc = "transaction",
                                                !.shareLink = shareLink,
                                                !.sent = sent,
                                                !.examId = examId,
                                                !.graded = Grade(qs, body)])
        /\ UNCHANGED <<exams, questions, responses, answers, nextId, reply, users, browser>>

\* prisma.$transaction of request i: tx.response.create, then
\* tx.answer.createMany.  A write fails when the database fails (fault) or
\* when the row it references is gone (foreign keys responses.examId,
\* answers.questionId); the catch block then answers 500.
submitResponseTransaction(i, fault) ==
  \E graded \in {Locals(i)} :
  LET req == inFlight[i]
      processedAnswers == graded.processedAnswers
      id == nextId.response
      first == nextId.answer
      answersData == [k \in 1..Len(processedAnswers) |->
                        [questionId |-> processedAnswers[k].questionId,
                         answer |-> processedAnswers[k].answer,
                         responseId |-> id]]
      failed ==
        IF fault = "first" \/ req.examId \notin ExamIds THEN "first"
        ELSE IF /\ Len(processedAnswers) > 0
                /\ \/ fault = "second"
                   \/ \E k \in 1..Len(processedAnswers) :
                        processedAnswers[k].questionId \notin QuestionIds
          THEN "second"
        ELSE "none"
      persisted == Transaction(failed)
      row == [examId |-> req.examId,
              score |-> Int32(graded.score),
              totalPoints |-> graded.totalPoints]
      failure == [Reply("submitResponse", 500, "", req.shareLink)
                    EXCEPT !.sent = req.sent]
  IN
  IF persisted = "nothing"
    THEN /\ reply' = failure
         /\ inFlight' = [inFlight EXCEPT ![i].pc = "done", ![i].status = 500]
         /\ UNCHANGED <<exams, questions, responses, answers, nextId, users, browser>>
  ELSE IF persisted = "first"
    THEN /\ responses' = responses @@ (id :> row)
         /\ nextId' = [nextId EXCEPT !.response = id + 1]
         /\ reply' = failure
         /\ inFlight' = [inFlight EXCEPT ![i].pc = "done", ![i].status = 500]
         /\ UNCHANGED <<exams, questions, answers, users, browser>>
  ELSE
         /\ responses' = responses @@ (id :> row)
         /\ answers' =
              answers @@ [a \in first..(first + Len(processedAnswers) - 1) |->
                            answersData[a - first + 1]]
         /\ nextId' = [nextId EXCEPT !.response = id + 1,
                                     !.answer = first + Len(processedAnswers)]
         /\ inFlight' = [inFlight EXCEPT ![i].pc = "readBack",
                                         ![i].responseId = id]
         /\ UNCHANGED <<exams, questions, reply, users, browser>>

\* completeResponse = prisma.response.findUnique(...) of request i and the
\* 201 reply; completeResponse is null when the row is gone
submitResponseReadBack(i) ==
  \E graded \in {Locals(i)} :
  LET req == inFlight[i]
  IN  /\ reply' = [Reply("submitResponse", 201, "", req.shareLink)
                     EXCEPT !.sent = req.sent,
                            !.responseId = req.responseId,
                            !.score = graded.score,
                            !.totalPoints = graded.totalPoints,
                            !.percentage =
                              Percentage(graded.score, graded.totalPoints),
                            !.processedAnswers = graded.processedAnswers,
                            !.answers = AnswerRows(AnswersOf(req.responseId))]
      /\ inFlight' = [inFlight EXCEPT ![i].pc = "done", ![i].status = 201]
      /\ UNCHANGED <<exams, questions, responses, answers, nextId, users, browser>>

----------------------------------------------------------------------------
(* PUT /api/responses/:responseId/score *)

\* the check without the comparison of the exam's author
ResponseExists(responseId, authorId) == responseId \in ResponseIds

\* the check before the update: the response exists and its exam is the
\* caller's
OwnsResponse(responseId, authorId) ==
  /\ responseId \in ResponseIds
  /\ exams[responses[responseId].examId].authorId = authorId

\* prisma.response.update({ data: { score } }) on the nullable Int column:
\* TRUE when Prisma accepts the value
ScoreWritable(score) ==
  \/ score.kind \in {"undefined", "null"}
  \/ score.kind = "number" /\ ~score.frac

\* data: { score, totalPoints: score }
updateResponseScoreWritingTotal(responseId, authorId, score) ==
  IF ~OwnsResponse(responseId, authorId)
    THEN /\ reply' = [Reply("updateResponseScore", 404, authorId, responseId)
                        EXCEPT !.given = score]
         /\ UNCHANGED <<exams, questions, responses, answers, nextId, users, browser, inFlight>>
    ELSE IF ~ScoreWritable(score)
    THEN /\ reply' = [Reply("updateResponseScore", 500, authorId, responseId)
                        EXCEPT !.given = score]
         /\ UNCHANGED <<exams, questions, responses, answers, nextId, users, browser, inFlight>>
    ELSE /\ responses' =
              IF score.kind # "number" THEN responses
              ELSE [responses EXCEPT ![responseId].score = score,
                                     ![responseId].totalPoints = score.num]
         /\ reply' = [Reply("updateResponseScore", 200, authorId, responseId)
                        EXCEPT !.given = score]
         /\ UNCHANGED <<exams, questions, answers, nextId, users, browser, inFlight>>

\* a separate 403 answer when the response is another tutor's
updateResponseScoreForbidding(responseId, authorId, score) ==
  IF responseId \notin ResponseIds
    THEN /\ reply' = [Reply("updateResponseScore", 404, authorId, responseId)
                        EXCEPT !.given = score]
         /\ UNCHANGED <<exams, questions, responses, answers, nextId, users, browser, inFlight>>
    ELSE IF ~OwnsResponse(responseId, authorId)
    THEN /\ reply' = [Reply("updateResponseScore", 403, authorId, responseId)
                        EXCEPT !.given = score]
         /\ UNCHANGED <<exams, questions, responses, answers, nextId, users, browser, inFlight>>
    ELSE IF ~ScoreWritable(score)
    THEN /\ reply' = [Reply("updateResponseScore", 500, authorId, responseId)
                        EXCEPT !.given = score]
         /\ UNCHANGED <<exams, questions, responses, answers, nextId, users, browser, inFlight>>
    ELSE /\ responses' =
              IF score.kind = "undefined" THEN responses
              ELSE [responses EXCEPT ![responseId].score = score]
         /\ reply' = [Reply("updateResponseScore", 200, authorId, responseId)
                        EXCEPT !.given = score]
         /\ UNCHANGED <<exams, questions, answers, nextId, users, browser, inFlight>>

\* a score above the response's totalPoints refused with a 400
updateResponseScoreCapped(responseId, authorId, score) ==
  IF ~OwnsResponse(responseId, authorId)
    THEN /\ reply' = [Reply("updateResponseScore", 404, authorId, responseId)
                        EXCEPT !.given = score]
         /\ UNCHANGED <<exams, questions, responses, answers, nextId, users, browser, inFlight>>
    ELSE IF ~ScoreWritable(score)
    THEN /\ reply' = [Reply("updateResponseScore", 500, authorId, responseId)
                        EXCEPT !.given = score]
         /\ UNCHANGED <<exams, questions, responses, answers, nextId, users, browser, inFlight>>
    ELSE IF score.kind = "number" /\ score.num > responses[responseId].totalPoints
    THEN /\ reply' = [Reply("updateResponseScore", 400, authorId, responseId)
                        EXCEPT !.given = score]
         /\ UNCHANGED <<exams, questions, responses, answers, nextId, users, browser, inFlight>>
    ELSE /\ responses' =
              IF score.kind = "undefined" THEN responses
              ELSE [responses EXCEPT ![responseId].score = score]
         /\ reply' = [Reply("updateResponseScore", 200, authorId, responseId)
                        EXCEPT !.given = score]
         /\ UNCHANGED <<exams, questions, answers, nextId, users, browser, inFlight>>

updateResponseScore(responseId, authorId, score) ==
  IF ~OwnsResponse(responseId, authorId)
    THEN /\ reply' = [Reply("updateResponseScore", 404, authorId, responseId)
                        EXCEPT !.given = score]
         /\ UNCHANGED <<exams, questions, responses, answers, nextId, users, browser, inFlight>>
    ELSE IF ~ScoreWritable(score)
    THEN \* Prisma throws, the catch block answers 500
         /\ reply' = [Reply("updateResponseScore", 500, authorId, responseId)
                        EXCEPT !.given = score]
         /\ UNCHANGED <<exams, questions, responses, answers, nextId, users, browser, inFlight>>
    ELSE /\ responses' =
              IF score.kind = "undefined" THEN responses
              ELSE [responses EXCEPT ![responseId].score = score]
         /\ reply' = [Reply("updateResponseScore", 200, authorId, responseId)
                        EXCEPT !.given = score]
         /\ UNCHANGED <<exams, questions, answers, nextId, users, browser, inFlight>>

----------------------------------------------------------------------------
(* Accounts: registration and sign-in with Google (config/passport.js,      *)
(* routes/auth.js)                                                          *)

\* prisma.user.findUnique({ where: { googleId } })
FindByGoogleId(googleId) == {u \in DOMAIN users : users[u].googleId = googleId}

\* prisma.user.findUnique({ where: { email } })
FindByEmail(email) == {u \in DOMAIN users : users[u].email = email}

\* POST /api/auth/register: a local account with a password, its email not
\* yet taken
register(body) ==
  IF FindByEmail(body.email) # {}
    THEN /\ reply' = Reply("register", 400, "", 0)
         /\ UNCHANGED <<exams, questions, responses, answers, nextId, users, browser, inFlight>>
    ELSE /\ users' = Append(users, [email |-> body.email,
                                    name |-> body.name,
                                    password |-> "hash",
                                    role |-> body.role,
                                    googleId |-> "none",
                                    avatar |-> "none",
                                    provider |-> "none",
                                    isEmailVerified |-> FALSE])
         /\ reply' = Reply("register", 201, "", Len(users) + 1)
         /\ UNCHANGED <<exams, questions, responses, answers, nextId, browser, inFlight>>

\* the lookup by email made before the lookup by Google id
verifyEmailFirst(profile) ==
  IF FindByEmail(profile.email) # {}
    THEN LET u == CHOOSE x \in FindByEmail(profile.email) : TRUE
         IN  [table |-> [users EXCEPT
                           ![u].googleId = profile.id,
                           ![u].avatar = IF profile.photo = "none" THEN @
                                         ELSE profile.photo,
                           ![u].provider = "google",
                           ![u].isEmailVerified = TRUE],
              user |-> u]
  ELSE IF FindByGoogleId(profile.id) # {}
    THEN [table |-> users,
          user |-> CHOOSE u \in FindByGoogleId(profile.id) : TRUE]
  ELSE [table |-> Append(users, [email |-> profile.email,
                                 name |-> profile.displayName,
                                 password |-> "none",
                                 role |-> "STUDENT",
                                 googleId |-> profile.id,
                                 avatar |-> profile.photo,
                                 provider |-> "google",
                                 isEmailVerified |-> TRUE]),
        user |-> Len(users) + 1]

\* the verify callback of the Google strategy: the users table after it and
\* the user it hands to done.  An avatar of undefined (a profile without
\* photo) leaves the column of an updated row alone and the column of a new
\* row empty.
verify(profile) ==
  IF FindByGoogleId(profile.id) # {}
    THEN [table |-> users,
          user |-> CHOOSE u \in FindByGoogleId(profile.id) : TRUE]
  ELSE IF FindByEmail(profile.email) # {}
    THEN LET u == CHOOSE x \in FindByEmail(profile.email) : TRUE
         IN  [table |-> [users EXCEPT
                           ![u].googleId = profile.id,
                           ![u].avatar = IF profile.photo = "none" THEN @
                                         ELSE profile.photo,
                           ![u].provider = "google",
                           ![u].isEmailVerified = TRUE],
              user |-> u]
  ELSE [table |-> Append(users, [email |-> profile.email,
                                 name |-> profile.displayName,
                                 password |-> "none",
                                 role |-> "STUDENT",
                                 googleId |-> profile.id,
                                 avatar |-> profile.photo,
                                 provider |-> "google",
                                 isEmailVerified |-> TRUE]),
        user |-> Len(users) + 1]

\* GET /api/auth/google/callback: passport runs the verify callback, the
\* handler generates a token for req.user and redirects the browser to the
\* frontend's /auth/callback?token=...&user=...
googleCallback(profile) ==
  \E done \in {verify(profile)} :
    /\ users' = done.table
    /\ browser' = [browser EXCEPT
                     !.location = "callback",
                     !.previous = "none",
                     !.status = "loading",
                     !.query = [token |-> done.user, user |-> done.user,
                                error |-> "none"],
                     !.pending = "none"]
    /\ reply' = [Reply("googleCallback", 302, "", done.user)
                   EXCEPT !.profile = profile]
    /\ UNCHANGED <<exams, questions, responses, answers, nextId, inFlight>>

----------------------------------------------------------------------------
(* The verify callback, await by await: it gives way to other callbacks      *)
(* while it waits for each prisma.user call.  The database refuses a write   *)
(* that would give two rows the same email (users_email_key) or the same     *)
(* googleId (the column findUnique looks up), and the callback then hands    *)
(* the error to done.                                                         *)

\* the sign-in of request i has ended: with a redirect carrying a token for
\* the user, or with the error of done(error, null)
Done(i, status, user) ==
  /\ inFlight' = [inFlight EXCEPT ![i].pc = "done", ![i].status = status,
                                  ![i].user = user]
  /\ reply' = [Reply("googleCallback", status, "", user)
                 EXCEPT !.profile = inFlight[i].profile]

\* prisma.user.findUnique({ where: { googleId: profile.id } }) and the
\* return of the user found
verifyFindByGoogleId(profile) ==
  /\ inFlight' =
       Append(inFlight,
              IF FindByGoogleId(profile.id) # {}
                THEN [NoRequest EXCEPT
                        !.op = "verify", !.pc = "done", !.status = 302,
                        !.profile = profile,
                        !.user = CHOOSE u \in FindByGoogleId(profile.id) : TRUE]
                ELSE [NoRequest EXCEPT
                        !.op = "verify", !.pc = "findByEmail",
                        !.profile = profile])
  /\ reply' = IF FindByGoogleId(profile.id) # {}
                THEN [Reply("googleCallback", 302, "",
                            CHOOSE u \in FindByGoogleId(profile.id) : TRUE)
                        EXCEPT !.profile = profile]
                ELSE reply
  /\ UNCHANGED <<exams, questions, responses, answers, nextId, users, browser>>

\* prisma.user.findUnique({ where: { email: profile.emails[0].value } })
verifyFindByEmail(i) ==
  /\ inFlight' =
       IF FindByEmail(inFlight[i].profile.email) # {}
         THEN [inFlight EXCEPT
                 ![i].pc = "update",
                 ![i].user =
                   CHOOSE u \in FindByEmail(inFlight[i].profile.email) : TRUE]
         ELSE [inFlight EXCEPT ![i].pc = "create"]
  /\ UNCHANGED <<exams, questions, responses, answers, nextId, reply, users, browser>>

\* prisma.user.update({ where: { id: existingUser.id }, data: { googleId,
\* avatar, provider, isEmailVerified } })
verifyUpdate(i) ==
  LET profile == inFlight[i].profile
      u == inFlight[i].user
  IN  IF \E x \in DOMAIN users \ {u} : users[x].googleId = profile.id
        THEN /\ Done(i, 500, 0)
             /\ UNCHANGED <<exams, questions, responses, answers, nextId, users, browser>>
        ELSE /\ users' = [users EXCEPT
                            ![u].googleId = profile.id,
                            ![u].avatar = IF profile.photo = "none" THEN @
                                          ELSE profile.photo,
                            ![u].provider = "google",
                            ![u].isEmailVerified = TRUE]
             /\ Done(i, 302, u)
             /\ UNCHANGED <<exams, questions, responses, answers, nextId, browser>>

\* prisma.user.create({ data: { googleId, name, email, avatar, provider,
\* isEmailVerified, role: 'STUDENT' } })
verifyCreate(i) ==
  LET profile == inFlight[i].profile
  IN  IF FindByEmail(profile.email) # {} \/ FindByGoogleId(profile.id) # {}
        THEN /\ Done(i, 500, 0)
             /\ UNCHANGED <<exams, questions, responses, answers, nextId, users, browser>>
        ELSE /\ users' = Append(users, [email |-> profile.email,
                                        name |-> profile.displayName,
                                        password |-> "none",
                                        role |-> "STUDENT",
                                        googleId |-> profile.id,
                                        avatar |-> profile.photo,
                                        provider |-> "google",
                                        isEmailVerified |-> TRUE])
             /\ Done(i, 302, Len(users) + 1)
             /\ UNCHANGED <<exams, questions, responses, answers, nextId, browser>>

----------------------------------------------------------------------------
(* Frontend sign-in: the /auth/callback page, the axios instance of         *)
(* lib/auth, the login page and the dashboard page                          *)

\* the browser opens /auth/callback with a query
navigate(query) ==
  /\ browser' = [browser EXCEPT !.location = "callback", !.previous = "none",
                                !.status = "loading", !.query = query,
                                !.pending = "none"]
  /\ UNCHANGED <<exams, questions, responses, answers, nextId, reply, users, inFlight>>

\* handleCallback, the effect of the /auth/callback page: an error
\* parameter, a missing parameter or a user that does not parse end in the
\* error status and a redirect to /login; otherwise token and user go to
\* localStorage and a redirect to /dashboard is scheduled
handleCallback ==
  /\ browser.location = "callback"
  /\ browser.status = "loading"
  /\ browser' =
       IF \/ browser.query.error # "none"
          \/ browser.query.token = 0
          \/ browser.query.user = 0
          \/ browser.query.user = Malformed
         THEN [browser EXCEPT !.status = "error", !.pending = "login"]
         ELSE [browser EXCEPT
                 !.localStorage = [token |-> browser.query.token,
                                   user |-> browser.query.user],
                 !.status = "success",
                 !.pending = "dashboard"]
  /\ UNCHANGED <<exams, questions, responses, answers, nextId, reply, users, inFlight>>

\* the callback of setTimeout: router.push to the page scheduled; the
\* dashboard page starts in its loading state
routerPush ==
  /\ browser.pending # "none"
  /\ browser' = [browser EXCEPT
                   !.location = browser.pending,
                   !.previous = browser.location,
                   !.status = IF browser.pending = "dashboard"
                                THEN "loading" ELSE "ready",
                   !.query = NoQuery,
                   !.pending = "none"]
  /\ UNCHANGED <<exams, questions, responses, answers, nextId, reply, users, inFlight>>

\* the request interceptor: the Authorization header carries the token of
\* the cookie, when there is one
Authorization == browser.cookie

\* GET /api/auth/profile behind authenticateToken: 200 with the user of a
\* token that is a user's, 401 otherwise
ProfileStatus(token) == IF token \in DOMAIN users THEN 200 ELSE 401

\* the login page's onSubmit with the credentials of user u: authService.login
\* keeps the token in the cookie, the page moves on by the user's role
login(u) ==
  /\ u \in DOMAIN users
  /\ users[u].password # "none"
  /\ browser' = [browser EXCEPT
                   !.cookie = u,
                   !.location = IF users[u].role = "TUTOR"
                                  THEN "dashboard" ELSE "student",
                   !.previous = "login",
                   !.status = IF users[u].role = "TUTOR"
                                THEN "loading" ELSE "ready",
                   !.query = NoQuery,
                   !.pending = "none"]
  /\ reply' = Reply("login", 200, "", u)
  /\ UNCHANGED <<exams, questions, responses, answers, nextId, users, inFlight>>

\* checkAuth of the dashboard page: authService.getProfile() through the
\* axios instance.  A 401 makes the response interceptor drop the cookie and
\* load /login, and checkAuth's catch push /login; a user who is no tutor is
\* pushed to /student.
checkAuth ==
  /\ browser.location = "dashboard"
  /\ browser.status = "loading"
  /\ \E token \in {Authorization} :
       /\ reply' = [Reply("getProfile", ProfileStatus(token), "", 0)
                      EXCEPT !.token = token]
       /\ browser' =
            IF ProfileStatus(token) = 401
              THEN [browser EXCEPT !.cookie = 0, !.location = "login",
                                   !.previous = "dashboard", !.status = "ready"]
            ELSE IF users[token].role # "TUTOR"
              THEN [browser EXCEPT !.location = "student",
                                   !.previous = "dashboard", !.status = "ready"]
            ELSE [browser EXCEPT !.status = "ready"]
  /\ UNCHANGED <<exams, questions, responses, answers, nextId, users, inFlight>>

----------------------------------------------------------------------------
(* Tutor summaries: the list endpoints, the API service and the students    *)
(* and analytics pages                                                      *)

\* const { page = 1, limit = 10 } = req.query
DefaultLimit == 10

\* ids from the latest created to the earliest (orderBy: { createdAt: 'desc' },
\* orderBy: { submittedAt: 'desc' }); ids grow with the time of creation
RECURSIVE Descending(_)
Descending(ids) ==
  IF ids = {} THEN <<>>
  ELSE LET m == CHOOSE x \in ids : \A y \in ids : y <= x
       IN  <<m>> \o Descending(ids \ {m})

\* skip: (page - 1) * limit, take: limit
Page(rows, page, limit) ==
  SubSeq(rows, (page - 1) * limit + 1,
         IF Len(rows) < page * limit THEN Len(rows) ELSE page * limit)

\* GET /api/exams: the data of the answer, an object
getExams(authorId, page, limit) ==
  LET own == {e \in ExamIds : exams[e].authorId = authorId}
  IN  [exams |-> Page(Descending(own), page, limit),
       pagination |-> [page |-> page, limit |-> limit,
                       total |-> Cardinality(own)]]

\* GET /api/responses/exam/:examId
getExamResponses(examId, authorId, page, limit) ==
  IF FindOwnExam(examId, authorId) = {}
    THEN [status |-> 404, responses |-> <<>>]
    ELSE [status |-> 200,
          responses |->
            Page(Descending({r \in ResponseIds : responses[r].examId = examId}),
                 page, limit)]

\* examService.getExams(): response.data.data of GET /api/exams with the
\* default page and limit, that is the object { exams, pagination } and not
\* the array in it
examServiceGetExams(authorId) ==
  [kind |-> "object", value |-> getExams(authorId, 1, DefaultLimit)]

\* for (const exam of exams) runs on arrays; on an object without iterator
\* it throws a TypeError
IsIterable(v) == v.kind = "array"

Elements(rows) == {rows[i] : i \in 1..Len(rows)}

\* the loop over the exams of both pages: the responses of the first page of
\* `limit` responses of every exam; an exam whose request fails is skipped
AllResponses(listed, authorId, limit) ==
  UNION {Elements(getExamResponses(e, authorId, 1, limit).responses) :
           e \in Elements(listed)}

\* the data load of a summary page for the tutor signed in: the TypeError of
\* the loop lands in the catch block, which shows the error and leaves the
\* summaries empty; otherwise every summary is folded over allResponses
LoadSummary(page, authorId, limit) ==
  \E listed \in {examServiceGetExams(authorId)} :
    /\ browser' =
         [browser EXCEPT !.summary =
            IF ~IsIterable(listed)
              THEN [page |-> page, user |-> authorId, error |-> TRUE,
                    allResponses |-> {}]
              ELSE [page |-> page, user |-> authorId, error |-> FALSE,
                    allResponses |-> AllResponses(listed.value, authorId, limit)]]
    /\ reply' = Reply("getExams", 200, authorId, 0)
    /\ UNCHANGED <<exams, questions, responses, answers, nextId, users, inFlight>>

\* StudentsPage.fetchData
fetchData(authorId) == LoadSummary("students", authorId, 100)

\* AnalyticsPage.fetchAnalytics
fetchAnalytics(authorId) == LoadSummary("analytics", authorId, 1000)

----------------------------------------------------------------------------
(* Create-exam page (dashboard/create-exam/page.tsx) *)

\* the values of the correct-answer control of a question of the form: the
\* select of a true/false question, the select over the options "A" and "B"
\* of a multiple-choice question, the answer-key textarea of the others; the
\* empty text is the control left alone
FormCorrectAnswers(type) ==
  IF type = "TRUE_FALSE"
    THEN {<<>>, <<"T", "r", "u", "e">>, <<"F", "a", "l", "s", "e">>}
    ELSE {<<>>, <<"B">>}

FormPoints == {5, 10}

FormQuestions ==
  UNION {[type : {t}, correctAnswer : FormCorrectAnswers(t), points : FormPoints] :
           t \in {"TRUE_FALSE", "MULTIPLE_CHOICE", "ESSAY"}}

\* the question lists of a form that passes examSchema
Forms == UNION {[1..n -> FormQuestions] : n \in 1..MaxQuestions}

\* data.questions.map((q, index) => ({ ... }))
processedQuestions(form) ==
  [i \in 1..Len(form) |->
     [type |-> form[i].type,
      correctAnswer |-> IF form[i].correctAnswer # <<>>
                          THEN Str(form[i].correctAnswer) ELSE Undefined,
      points |-> Int32(form[i].points)]]

\* onSubmit: the processed form is posted to POST /api/exams
onSubmit(authorId, form) == createExam(authorId, processedQuestions(form))

----------------------------------------------------------------------------
(* Exam page (exam/[shareLink]/page.tsx) *)

\* what the student's input leaves in answers[question.id] || '': the value
\* of the radio button selected, the text typed, the empty text when the
\* question was left alone
PageAnswers(type) ==
  IF type = "TRUE_FALSE"
    THEN {<<>>, <<"t", "r", "u", "e">>, <<"f", "a", "l", "s", "e">>}
  ELSE IF type = "MULTIPLE_CHOICE" THEN {<<>>, <<"A">>, <<"B">>}
  ELSE {<<>>, <<"B">>}

\* the inputs a student can leave on the page of an exam with questions qs
PageInputs(qs) ==
  {in \in [1..Len(qs) ->
             UNION {PageAnswers(t) : t \in QuestionTypes}] :
     \A i \in 1..Len(qs) : in[i] \in PageAnswers(qs[i].type)}

\* exam.questions.map(question => ({ questionId, answer: answers[id] || '' }))
examAnswers(qs, in) ==
  [i \in 1..Len(qs) |-> [questionId |-> qs[i].id, answer |-> in[i]]]

\* submitExam on the page of the exam loaded through its share link: one
\* answer per question of the exam is posted to the submission endpoint
submitExam(shareLink, in) ==
  \E examId \in FindActiveExam(shareLink) :
    submitResponse(shareLink, examAnswers(OrderedQuestions(examId), in))

----------------------------------------------------------------------------
(* One session on the exam page: the component's state, its countdown and    *)
(* the submissions it posts.  A posted submission is received by the server  *)
(* later, and its answer reaches the page later still; the k-th submission   *)
(* posted is the k-th received.                                              *)

\* exam.timeLimit of the exam loaded, counted in ticks of the countdown
TimeLimits == {NoTime, MaxTime}

\* fetchExam, the effect that loads the exam when the page opens; the catch
\* block sets the error when the exam is not found or inactive
fetchExam(shareLink, timeLimit) ==
  /\ browser.examPage = NoExamPage
  /\ IF FindActiveExam(shareLink) = {}
       THEN /\ browser' = [browser EXCEPT !.examPage.error = TRUE]
            /\ reply' = Reply("getPublicExam", 404, "", shareLink)
       ELSE
         \E examId \in FindActiveExam(shareLink) :
         \E exam \in {PublicExam(examId, OrderedQuestions(examId))} :
           /\ browser' = [browser EXCEPT
                            !.examPage.exam = exam,
                            !.examPage.timeLeft = timeLimit,
                            !.examPage.answers =
                              [i \in 1..Len(exam.questions) |-> <<>>]]
           /\ reply' = [Reply("getPublicExam", 200, "", shareLink)
                          EXCEPT !.exam = exam]
  /\ UNCHANGED <<exams, questions, responses, answers, nextId, users, inFlight>>

\* the values a callback created now captures
Closure(page) ==
  [examSubmitted |-> page.examSubmitted, answers |-> page.answers]

\* startExam: the start form is submitted; the timer effect runs, since
\* examStarted is one of its dependencies
startExam ==
  /\ browser.examPage.exam # NoExam
  /\ ~browser.examPage.examStarted
  /\ browser' = [browser EXCEPT
                   !.examPage.examStarted = TRUE,
                   !.examPage.closure = Closure(browser.examPage)]
  /\ UNCHANGED <<exams, questions, responses, answers, nextId, reply, users, inFlight>>

\* the exam form is on screen: not the error card, not the submitted card
FormShown(page) ==
  /\ page.exam # NoExam
  /\ page.examStarted
  /\ ~page.examSubmitted
  /\ ~page.error

\* handleAnswerChange: the student answers question k
handleAnswerChange(k, text) ==
  /\ FormShown(browser.examPage)
  /\ k \in 1..Len(browser.examPage.answers)
  /\ browser' = [browser EXCEPT !.examPage.answers[k] = text]
  /\ UNCHANGED <<exams, questions, responses, answers, nextId, reply, users, inFlight>>

\* submitExam as the callback that saw examSubmitted and answers as given:
\* the page after it, up to the await of the request
Posting(page, examSubmitted, given) ==
  IF examSubmitted \/ page.exam = NoExam
    THEN page
    ELSE [page EXCEPT
            !.isSubmitting = TRUE,
            !.posted = Append(@, examAnswers(page.exam.questions, given))]

\* a click on the Submit Exam button, which is disabled while isSubmitting
clickSubmit ==
  /\ FormShown(browser.examPage)
  /\ ~browser.examPage.isSubmitting
  /\ browser' = [browser EXCEPT
                   !.examPage = Posting(browser.examPage,
                                        browser.examPage.examSubmitted,
                                        browser.examPage.answers)]
  /\ UNCHANGED <<exams, questions, responses, answers, nextId, reply, users, inFlight>>

\* one firing of the interval: timeLeft goes down by one; at zero
\* handleAutoSubmit runs, with the values the interval's callback captured
\* when the effect set it up.  The effect runs again, since timeLeft changed.
tick ==
  /\ browser.examPage.examStarted
  /\ browser.examPage.timeLeft > 0
  /\ \E page \in {browser.examPage} :
     \E after \in {IF page.timeLeft <= 1
                     THEN [Posting(page, page.closure.examSubmitted,
                                   page.closure.answers)
                             EXCEPT !.timeLeft = 0]
                     ELSE [page EXCEPT !.timeLeft = @ - 1]} :
       browser' = [browser EXCEPT
                     !.examPage = [after EXCEPT !.closure = Closure(after)]]
  /\ UNCHANGED <<exams, questions, responses, answers, nextId, reply, users, inFlight>>

\* the server receives the next submission the page has posted
receive ==
  /\ Len(inFlight) < Len(browser.examPage.posted)
  /\ submitResponseLookup(browser.examPage.exam.shareLink,
                          browser.examPage.posted[Len(inFlight) + 1])

\* the answer to a submission reaches the page: submitExam goes on after its
\* await, with setExamSubmitted(true) or with the catch block, and finally
\* setIsSubmitting(false)
answered ==
  /\ browser.examPage.received < Len(inFlight)
  /\ \E k \in {browser.examPage.received + 1} :
       /\ inFlight[k].pc = "done"
       /\ browser' = [browser EXCEPT
                        !.examPage.received = k,
                        !.examPage.isSubmitting = FALSE,
                        !.examPage.examSubmitted =
                          IF inFlight[k].status = 201 THEN TRUE ELSE @,
                        !.examPage.error =
                          IF inFlight[k].status = 201 THEN @ ELSE TRUE]
  /\ UNCHANGED <<exams, questions, responses, answers, nextId, reply, users, inFlight>>

----------------------------------------------------------------------------
(* Specifications *)

\* One exam and its responses over any sequence of requests by two users.
Next ==
  \/ /\ nextId.exam <= MaxExams
     /\ \E u \in Users, qs \in ListsOf(FewQuestionInputs) \cup InvalidQuestionLists :
          createExam(u, qs)
  \/ \E id \in 1..MaxExams, u \in Users, a \in IsActiveInputs :
       updateExam(id, u, a)
  \/ \E id \in 1..MaxExams, u \in Users : deleteExam(id, u)
  \/ \E link \in 0..MaxExams : getPublicExam(link)
  \/ /\ nextId.response <= MaxResponses
     /\ \E link \in 0..MaxExams,
           sent \in SentAnswers(FewAnswerTexts) \cup InvalidSubmissions :
          submitResponse(link, sent)
  \/ \E r \in 1..MaxResponses, u \in Users, score \in ScoreInputs :
       updateResponseScore(r, u, score)

Spec == Init /\ [][Next]_vars

\* Grading: one exam of any questions, then one submission of any answers.
GradeNext ==
  \/ /\ exams = <<>>
     /\ \E qs \in ListsOf(QuestionInputs) : createExam("u1", qs)
  \/ /\ responses = <<>>
     /\ reply.op # "submitResponse"
     /\ \E e \in ExamIds, sent \in SentAnswers(AnswerTexts) :
          submitResponse(exams[e].shareLink, sent)

GradeSpec == Init /\ [][GradeNext]_vars

\* Exams published side by side by one tutor, and submissions through their
\* share links.
PublicNext ==
  \/ /\ nextId.exam <= MaxPublished
     /\ \E qs \in ListsOf(FewQuestionInputs) : createExam("u1", qs)
  \/ /\ nextId.response <= MaxResponses
     /\ \E link \in 0..MaxPublished, sent \in SentAnswers(FewAnswerTexts) :
          submitResponse(link, sent)

PublicSpec == Init /\ [][PublicNext]_vars

\* The pages end to end: a tutor creates an exam through the form, a student
\* takes it on the exam page.
PageNext ==
  \/ /\ exams = <<>>
     /\ \E form \in Forms : onSubmit("u1", form)
  \/ \E e \in ExamIds : getPublicExam(exams[e].shareLink)
  \/ /\ responses = <<>>
     /\ reply.op # "submitResponse"
     /\ \E e \in ExamIds :
          \E in \in PageInputs(OrderedQuestions(e)) :
            submitExam(exams[e].shareLink, in)

PageSpec == Init /\ [][PageNext]_vars

\* One exam and the submissions to it, request by request: submissions in
\* flight together, among updates and the deletion of the exam, over a
\* database that may fail during a transaction.
RaceSubmissions ==
  {<<[questionId |-> q, answer |-> t]>> :
     q \in QuestionIds, t \in {<<"B">>, <<"b">>}}

RaceNext ==
  \/ /\ nextId.exam <= MaxExams
     /\ \E qs \in ListsOf(FewQuestionInputs), fault \in Faults :
          createExamWith("u1", qs, fault)
  \/ \E a \in {"true", "false"} : updateExam(1, "u1", a)
  \/ deleteExam(1, "u1")
  \/ /\ Len(inFlight) < MaxInFlight
     /\ \E sent \in RaceSubmissions : submitResponseLookup(1, sent)
  \/ \E i \in DOMAIN inFlight :
       /\ inFlight[i].pc = "transaction"
       /\ \E fault \in Faults : submitResponseTransaction(i, fault)
  \/ \E i \in DOMAIN inFlight :
       /\ inFlight[i].pc = "readBack"
       /\ submitResponseReadBack(i)

RaceSpec == Init /\ [][RaceNext]_vars

\* Two tutors, their exams and the responses to them, and the summary pages.
SummaryNext ==
  \/ /\ nextId.exam <= MaxPublished
     /\ \E u \in Users, qs \in ListsOf(FewQuestionInputs) : createExam(u, qs)
  \/ /\ nextId.response <= MaxResponses
     /\ \E link \in 1..MaxPublished, q \in QuestionIds :
          submitResponse(link, <<[questionId |-> q, answer |-> <<"B">>]>>)
  \/ \E u \in Users : fetchData(u)
  \/ \E u \in Users : fetchAnalytics(u)

SummarySpec == Init /\ [][SummaryNext]_vars

\* Accounts: registrations and sign-ins with Google from one browser.
AuthNext ==
  \/ /\ Len(users) < MaxUsers
     /\ \E body \in Registrations : register(body)
  \/ \E profile \in Profiles :
       /\ \/ Len(users) < MaxUsers
          \/ FindByGoogleId(profile.id) # {}
          \/ FindByEmail(profile.email) # {}
       /\ googleCallback(profile)
  \/ \E query \in Queries : navigate(query)
  \/ handleCallback
  \/ routerPush
  \/ \E u \in 1..MaxUsers : login(u)
  \/ checkAuth

AuthSpec == Init /\ [][AuthNext]_vars

\* One student on the exam page of one exam, from the load of the page on.
SessionNext ==
  \/ /\ exams = <<>>
     /\ \E qs \in ListsOf(FewQuestionInputs) : createExam("u1", qs)
  \/ \E limit \in TimeLimits : fetchExam(1, limit)
  \/ startExam
  \/ \E k \in 1..MaxQuestions : handleAnswerChange(k, <<"B">>)
  \/ clickSubmit
  \/ tick
  \/ receive
  \/ \E i \in DOMAIN inFlight :
       /\ inFlight[i].pc = "transaction"
       /\ submitResponseTransaction(i, "none")
  \/ \E i \in DOMAIN inFlight :
       /\ inFlight[i].pc = "readBack"
       /\ submitResponseReadBack(i)
  \/ answered

SessionSpec == Init /\ [][SessionNext]_vars

\* Sign-ins with Google in flight together, among registrations.
SignInNext ==
  \/ /\ Len(users) < MaxUsers
     /\ \E body \in Registrations : register(body)
  \/ /\ Len(inFlight) < MaxSignIns
     /\ \E profile \in Profiles : verifyFindByGoogleId(profile)
  \/ \E i \in DOMAIN inFlight :
       /\ inFlight[i].pc = "findByEmail"
       /\ verifyFindByEmail(i)
  \/ \E i \in DOMAIN inFlight :
       /\ inFlight[i].pc = "update"
       /\ verifyUpdate(i)
  \/ \E i \in DOMAIN inFlight :
       /\ inFlight[i].pc = "create"
       /\ verifyCreate(i)

SignInSpec == Init /\ [][SignInNext]_vars

----------------------------------------------------------------------------
(* Properties *)

RECURSIVE SumPoints(_)
SumPoints(ids) ==
  IF ids = {} THEN 0
  ELSE LET q == CHOOSE x \in ids : TRUE
       IN  questions[q].points + SumPoints(ids \ {q})

QuestionsOf(examId) == {q \in QuestionIds : questions[q].examId = examId}

IsObjective(q) == questions[q].type \in {"MULTIPLE_CHOICE", "TRUE_FALSE"}

IsSubjective(q) == questions[q].type \in {"SHORT_ANSWER", "ESSAY"}

Abs(n) == IF n < 0 THEN 0 - n ELSE n

\* a submission has just been recorded
Submitted == reply.op = "submitResponse" /\ reply.status = 201

\* the exam of the submission just recorded
SubmittedExam == responses[reply.responseId].examId

Processed == {reply.processedAnswers[i] : i \in 1..Len(reply.processedAnswers)}

\* C1: the totalPoints stored on a response and returned with it is the sum
\* of the points of all questions of the exam, answered or not.
C1_TotalPointsIsSumOfAllPoints ==
  Submitted =>
    /\ reply.totalPoints = SumPoints(QuestionsOf(SubmittedExam))
    /\ responses[reply.responseId].totalPoints =
         SumPoints(QuestionsOf(SubmittedExam))

\* C1 witness: a submission that leaves a question unanswered, whose points
\* still count: 10 of the 15 points are for the answered question.
C1_Witness ==
  /\ Submitted
  /\ Len(reply.processedAnswers) = 1
  /\ Cardinality(QuestionsOf(SubmittedExam)) = 2
  /\ questions[reply.processedAnswers[1].questionId].points = 10
  /\ reply.totalPoints = 15

\* C2: a matched answer to an objective question is correct exactly when a
\* correct answer is configured and the answer text equals it, letter case
\* included; the score is the sum of the points of the questions so answered.
C2_ObjectiveGradedByExactMatch ==
  Submitted =>
    /\ \A a \in Processed :
         IsObjective(a.questionId) =>
           (a.isCorrect <=>
              /\ questions[a.questionId].correctAnswer.kind = "string"
              /\ a.answer = questions[a.questionId].correctAnswer.text)
    /\ reply.score =
         SumPoints({q \in QuestionsOf(SubmittedExam) :
                      /\ IsObjective(q)
                      /\ questions[q].correctAnswer.kind = "string"
                      /\ \E a \in Processed :
                           /\ a.questionId = q
                           /\ a.answer = questions[q].correctAnswer.text})

\* C2 witness: two objective questions with the same correct answer, one
\* answered exactly and one in the other letter case.
C2_Witness ==
  /\ Submitted
  /\ \E a, b \in Processed :
       /\ IsObjective(a.questionId) /\ IsObjective(b.questionId)
       /\ questions[a.questionId].correctAnswer = Str(<<"B">>)
       /\ questions[b.questionId].correctAnswer = Str(<<"B">>)
       /\ a.answer = <<"B">> /\ a.isCorrect
       /\ b.answer = <<"b">> /\ ~b.isCorrect
       /\ reply.score = questions[a.questionId].points

\* C3: a matched answer to a subjective question is never correct, and only
\* objective questions marked correct add their points to the score.
C3_SubjectiveNeverCorrect ==
  Submitted =>
    /\ \A a \in Processed : IsSubjective(a.questionId) => ~a.isCorrect
    /\ reply.score =
         SumPoints({q \in QuestionsOf(SubmittedExam) :
                      /\ IsObjective(q)
                      /\ \E a \in Processed : a.questionId = q /\ a.isCorrect})

\* C3 witness: a subjective question answered with the very text stored as
\* its correct answer.
C3_Witness ==
  /\ Submitted
  /\ \E a \in Processed :
       /\ IsSubjective(a.questionId)
       /\ questions[a.questionId].correctAnswer = Str(a.answer)
       /\ ~a.isCorrect
  /\ reply.score = 0

\* C4: the percentage is an integer nearest to 100 * score / totalPoints when
\* totalPoints > 0, and 0 when totalPoints = 0.
C4_PercentageIsRounded ==
  Submitted =>
    IF reply.totalPoints > 0
      THEN 2 * Abs(100 * reply.score - reply.percentage * reply.totalPoints)
             <= reply.totalPoints
      ELSE reply.percentage = 0

\* C4 witness: 10 of 15 points give 67.
C4_Witness ==
  /\ Submitted
  /\ reply.score = 10
  /\ reply.totalPoints = 15
  /\ reply.percentage = 67

\* the answers of the submission just recorded that name a question of its exam
SentForExam ==
  LET OfExam(a) == a.questionId \in QuestionsOf(SubmittedExam)
  IN  SelectSeq(reply.sent, OfExam)

\* C5: answers that name no question of the exam are dropped.  Every answer
\* row belongs to a question of its response's exam; the submission is graded
\* and stored as if only the answers naming questions of the exam had been
\* sent, one row per question answered; and a valid submission to an active
\* exam is recorded even when none of its answers names a question of it.
C5_UnmatchedAnswersDropped ==
  /\ \A a \in AnswerIds :
       answers[a].questionId \in QuestionsOf(responses[answers[a].responseId].examId)
  /\ Submitted =>
       LET r == reply.responseId
           g == Grade(OrderedQuestions(SubmittedExam), Sanitized(SentForExam))
           named == {SentForExam[i].questionId : i \in 1..Len(SentForExam)}
       IN  /\ reply.score = g.score
           /\ reply.totalPoints = g.totalPoints
           /\ reply.processedAnswers = g.processedAnswers
           /\ responses[r].score = Int32(g.score)
           /\ responses[r].totalPoints = SumPoints(QuestionsOf(SubmittedExam))
           /\ {answers[a].questionId : a \in AnswersOf(r)} = named
           /\ Cardinality(AnswersOf(r)) = Cardinality(named)
           /\ named = {} => responses[r].score = Int32(0)
  /\ ( /\ reply.op = "submitResponse"
       /\ SubmitBodyValid(reply.sent)
       /\ FindActiveExam(reply.target) # {} ) => reply.status = 201

\* C5 witness: a recorded submission whose answers name a question of another
\* exam and a question that does not exist, to an exam with questions: score
\* 0, the full totalPoints and no answer row.
C5_Witness ==
  /\ Submitted
  /\ \E i, j \in 1..Len(reply.sent) :
       /\ reply.sent[i].questionId \in QuestionIds \ QuestionsOf(SubmittedExam)
       /\ reply.sent[j].questionId \notin QuestionIds
  /\ AnswersOf(reply.responseId) = {}
  /\ responses[reply.responseId].score = Int32(0)
  /\ responses[reply.responseId].totalPoints = 2

\* the answer sent for question q in the submission just recorded (the first
\* that names it), 0 when there is none
SentIndex(q) == FindAnswer(reply.sent, q)

\* C6 as stated: an answer that differs from the correct answer only by
\* leading or trailing whitespace is graded incorrect.
C6_WhitespaceDifferenceIsIncorrect ==
  Submitted =>
    \A a \in Processed :
      LET q == a.questionId
          sent == reply.sent[SentIndex(q)].answer
      IN  ( /\ IsObjective(q)
            /\ questions[q].correctAnswer.kind = "string"
            /\ sent # questions[q].correctAnswer.text
            /\ Trim(sent) = Trim(questions[q].correctAnswer.text) )
          => ~a.isCorrect

\* C6 amended: the text compared, and stored, is the sent text with its
\* leading and trailing whitespace removed; it is compared exactly with the
\* stored correct answer, which is not trimmed.
C6_TrimmedAnswerComparedExactly ==
  Submitted =>
    \A a \in Processed :
      LET q == a.questionId
          sent == reply.sent[SentIndex(q)].answer
      IN  /\ a.answer = Trim(sent)
          /\ IsObjective(q) =>
               (a.isCorrect <=>
                  /\ questions[q].correctAnswer.kind = "string"
                  /\ Trim(sent) = questions[q].correctAnswer.text)

\* C6 witness: " B " sent for an objective question whose correct answer is
\* "B" is graded correct and earns the points; "B" sent for one whose correct
\* answer is " B" is not.
C6_Witness ==
  /\ Submitted
  /\ \E a, b \in Processed :
       /\ IsObjective(a.questionId) /\ IsObjective(b.questionId)
       /\ questions[a.questionId].correctAnswer = Str(<<"B">>)
       /\ reply.sent[SentIndex(a.questionId)].answer = <<" ", "B", " ">>
       /\ a.isCorrect
       /\ questions[b.questionId].correctAnswer = Str(<<" ", "B">>)
       /\ reply.sent[SentIndex(b.questionId)].answer = <<"B">>
       /\ ~b.isCorrect
       /\ reply.score = questions[a.questionId].points

\* the author of the exam a response belongs to
AuthorOf(r) == exams[responses[r].examId].authorId

\* the answer rows of response r in a table of answers
RowsOf(table, r) == {table[a] : a \in {x \in DOMAIN table : table[x].responseId = r}}

\* C7: while a response exists, no request changes its totalPoints, its exam
\* or its answer rows.
C7_ResponseSnapshotIsFrozen ==
  [][\A r \in (DOMAIN responses) \cap (DOMAIN responses') :
       /\ responses'[r].totalPoints = responses[r].totalPoints
       /\ responses'[r].examId = responses[r].examId
       /\ {a \in DOMAIN answers' : answers'[a].responseId = r} = AnswersOf(r)
       /\ RowsOf(answers', r) = RowsOf(answers, r)]_vars

\* C7 witness: a response with an answer row that has since seen its exam
\* deactivated, its score overridden and a second submission to the exam.
C7_Witness ==
  /\ ResponseIds = {1, 2}
  /\ responses[1].score = Int32(20)
  /\ responses[1].totalPoints = 2
  /\ Cardinality(AnswersOf(1)) = 1
  /\ ~exams[responses[1].examId].isActive

\* C8: the score of an existing response changes only in a successful
\* updateResponseScore on that response by the author of its exam.
C8_ScoreChangedOnlyByAuthor ==
  [][\A r \in (DOMAIN responses) \cap (DOMAIN responses') :
       responses'[r].score # responses[r].score =>
         /\ reply'.op = "updateResponseScore"
         /\ reply'.status = 200
         /\ reply'.target = r
         /\ reply'.caller = AuthorOf(r)]_vars

\* C8 witness: a call by another user has just been refused on a response
\* whose score its exam's author had set to 20; the score is still 20.
C8_Witness ==
  /\ reply.op = "updateResponseScore"
  /\ reply.target \in ResponseIds
  /\ reply.caller # AuthorOf(reply.target)
  /\ reply.status # 200
  /\ responses[reply.target].score = Int32(20)

\* C9 as stated: a call by a user who is not the author of the response's
\* exam is answered with an authorization error, not with NotFound.
C9_NonAuthorGetsAuthorizationError ==
  ( /\ reply.op = "updateResponseScore"
    /\ reply.target \in ResponseIds
    /\ reply.caller # AuthorOf(reply.target) ) => reply.status \in {401, 403}

\* C9 amended: a call by a user who is not the author of the response's exam
\* is answered with the 404 of a response that does not exist.
C9_NonAuthorGetsNotFound ==
  ( /\ reply.op = "updateResponseScore"
    /\ \/ reply.target \notin ResponseIds
       \/ reply.caller # AuthorOf(reply.target) ) => reply.status = 404

\* C9 witness: a call on an existing response of another tutor's exam,
\* answered 404.
C9_Witness ==
  /\ reply.op = "updateResponseScore"
  /\ reply.target \in ResponseIds
  /\ reply.caller # AuthorOf(reply.target)
  /\ reply.status = 404

\* C10 as stated: every stored score that is a number is a non-negative
\* integer.
C10_StoredScoresAreNonNegativeIntegers ==
  \A r \in ResponseIds :
    responses[r].score.kind = "number" =>
      ~responses[r].score.frac /\ responses[r].score.num >= 0

\* C11: a call by the exam's author with an integer score above the
\* response's totalPoints is accepted, and the stored score is that value.
C11_ScoreAboveTotalAccepted ==
  ( /\ reply.op = "updateResponseScore"
    /\ reply.target \in ResponseIds
    /\ reply.caller = AuthorOf(reply.target)
    /\ reply.given.kind = "number"
    /\ ~reply.given.frac
    /\ reply.given.num > responses[reply.target].totalPoints )
  => /\ reply.status = 200
     /\ responses[reply.target].score = reply.given

\* C11 witness: the author has just set score 20 on a response whose
\* totalPoints is 2.
C11_Witness ==
  /\ reply.op = "updateResponseScore"
  /\ reply.status = 200
  /\ reply.given = Int32(20)
  /\ reply.target \in ResponseIds
  /\ responses[reply.target].totalPoints = 2
  /\ responses[reply.target].score = Int32(20)

\* no active exam has this share link
NoActiveExam(shareLink) ==
  \A e \in ExamIds : exams[e].shareLink = shareLink => ~exams[e].isActive

\* the submission fails a check of submitResponseValidation
FailsValidation(sent) ==
  \/ sent = <<>>
  \/ \E i \in 1..Len(sent) :
       \/ sent[i].questionId = EmptyId
       \/ Trim(sent[i].answer) = <<>>

\* C12: getPublicExam, and submitResponse with a body that passes validation,
\* answer 404 when the share link is that of no exam or of an inactive one,
\* and such a request creates no response row and no answer row.
C12_MissingOrInactiveExamIsNotFound ==
  [][( /\ reply'.op \in {"submitResponse", "getPublicExam"}
       /\ reply'.op = "submitResponse" => ~FailsValidation(reply'.sent)
       /\ NoActiveExam(reply'.target) )
     => /\ reply'.status = 404
        /\ responses' = responses
        /\ answers' = answers]_vars

\* C12 witness: a submission in order has just been refused with 404 on the
\* share link of an exam that took a response before it was deactivated.
C12_Witness ==
  /\ reply.op = "submitResponse"
  /\ reply.status = 404
  /\ ~FailsValidation(reply.sent)
  /\ \E e \in ExamIds : exams[e].shareLink = reply.target /\ ~exams[e].isActive
  /\ ResponseIds = {1}
  /\ nextId.response = 2

\* C13: a submission that fails validation is answered 400, whatever its
\* share link, and creates no response row and no answer row.
C13_InvalidSubmissionRejected ==
  [][( /\ reply'.op = "submitResponse"
       /\ FailsValidation(reply'.sent) )
     => /\ reply'.status = 400
        /\ responses' = responses
        /\ answers' = answers
        /\ nextId' = nextId]_vars

\* C13 witness: a submission with one answer in order and one empty answer
\* text, sent to the share link of no exam, is answered 400 and not 404.
C13_Witness ==
  /\ reply.op = "submitResponse"
  /\ reply.status = 400
  /\ Len(reply.sent) = 2
  /\ reply.sent[2].answer = <<>>
  /\ reply.target \notin {exams[e].shareLink : e \in ExamIds}
  /\ ExamIds # {}
  /\ responses = <<>>

\* C14 as stated: every answer of the response returned by a submission
\* carries the isCorrect that grading computed for it, and so does the row
\* stored for it.
C14_CorrectnessFlagKept ==
  Submitted =>
    \A p \in Processed :
      /\ \E i \in 1..Len(reply.answers) :
           /\ reply.answers[i].questionId = p.questionId
           /\ "isCorrect" \in DOMAIN reply.answers[i]
           /\ reply.answers[i].isCorrect = p.isCorrect
      /\ \E a \in AnswersOf(reply.responseId) :
           /\ answers[a].questionId = p.questionId
           /\ "isCorrect" \in DOMAIN answers[a]
           /\ answers[a].isCorrect = p.isCorrect

\* the student selected the truth value the tutor selected
SameTruthValue(correct, sent) ==
  \/ correct = <<"T", "r", "u", "e">> /\ sent \in {<<"T", "r", "u", "e">>, <<"t", "r", "u", "e">>}
  \/ /\ correct = <<"F", "a", "l", "s", "e">>
     /\ sent \in {<<"F", "a", "l", "s", "e">>, <<"f", "a", "l", "s", "e">>}

\* C15 as stated: after a submission from the exam page, a true/false
\* question whose correct answer was selected on the form is marked correct
\* exactly when the student selected the same truth value.
C15_TrueFalseGradedEndToEnd ==
  Submitted =>
    \A a \in Processed :
      LET q == a.questionId
      IN  ( /\ questions[q].type = "TRUE_FALSE"
            /\ questions[q].correctAnswer.kind = "string" )
          => (a.isCorrect <=> SameTruthValue(questions[q].correctAnswer.text,
                                            reply.sent[SentIndex(q)].answer))

\* C16 as stated: a submission from the exam page with a question left
\* unanswered is accepted and recorded, with no answer row for that question.
C16_UnansweredQuestionsAccepted ==
  ( /\ reply.op = "submitResponse"
    /\ \E i \in 1..Len(reply.sent) : reply.sent[i].answer = <<>> )
  => /\ reply.status = 201
     /\ \A i \in 1..Len(reply.sent) :
          reply.sent[i].answer = <<>> =>
            \A a \in AnswersOf(reply.responseId) :
              answers[a].questionId # reply.sent[i].questionId

\* C17: updateExam or deleteExam on an exam by a user who is not its author
\* is answered 404 (updateExam with a body that fails validation: 400, as
\* for any caller) and changes no table; an exam changes or goes only in a
\* successful updateExam or deleteExam on it by its author.
C17_ExamChangedOnlyByAuthor ==
  [][/\ ( /\ reply'.op \in {"updateExam", "deleteExam"}
          /\ reply'.target \in ExamIds
          /\ reply'.caller # exams[reply'.target].authorId )
        => /\ reply'.status =
                IF /\ reply'.op = "updateExam"
                   /\ reply'.isActive \notin {"undefined", "true", "false"}
                  THEN 400 ELSE 404
           /\ UNCHANGED <<exams, questions, responses, answers>>
     /\ \A e \in ExamIds :
          (e \notin DOMAIN exams' \/ exams'[e] # exams[e])
          => /\ reply'.op \in {"updateExam", "deleteExam"}
             /\ reply'.status = 200
             /\ reply'.target = e
             /\ reply'.caller = exams[e].authorId]_vars

\* C17 witness: deleteExam by another user has just been answered 404 on an
\* exam that has questions, a response and an answer row.
C17_Witness ==
  /\ reply.op = "deleteExam"
  /\ reply.status = 404
  /\ reply.target \in ExamIds
  /\ reply.caller # exams[reply.target].authorId
  /\ QuestionsOf(reply.target) # {}
  /\ \E r \in ResponseIds : responses[r].examId = reply.target /\ AnswersOf(r) # {}

\* C18: every question and response belongs to an exam that exists and every
\* answer to a response and a question that exist; after a successful
\* deleteExam the exam is gone, and so nothing that referenced it remains.
C18_DeleteCascades ==
  /\ \A q \in QuestionIds : questions[q].examId \in ExamIds
  /\ \A r \in ResponseIds : responses[r].examId \in ExamIds
  /\ \A a \in AnswerIds : /\ answers[a].responseId \in ResponseIds
                           /\ answers[a].questionId \in QuestionIds
  /\ (reply.op = "deleteExam" /\ reply.status = 200) => reply.target \notin ExamIds

\* C18 witness: the author has just deleted an exam that had two questions,
\* two responses and answer rows; every table is empty.
C18_Witness ==
  /\ reply.op = "deleteExam"
  /\ reply.status = 200
  /\ nextId.question = 3
  /\ nextId.response = 3
  /\ nextId.answer >= 3
  /\ exams = <<>> /\ questions = <<>> /\ responses = <<>> /\ answers = <<>>

\* C19: a sign-in with Google returns, unchanged, the user whose googleId is
\* the profile's id; else it links the user whose email is the profile's:
\* googleId, provider and isEmailVerified set, avatar set to the profile's
\* photo when it has one, every other column and every other user as before;
\* else it adds a user with the profile's data, role STUDENT and no password.
C19_GoogleAccountResolution ==
  [][reply'.op = "googleCallback" =>
       LET p == reply'.profile
           u == reply'.target
       IN  IF \E x \in DOMAIN users : users[x].googleId = p.id
             THEN /\ users' = users
                  /\ u \in DOMAIN users
                  /\ users[u].googleId = p.id
           ELSE IF \E x \in DOMAIN users : users[x].email = p.email
             THEN /\ u \in DOMAIN users
                  /\ users[u].email = p.email
                  /\ DOMAIN users' = DOMAIN users
                  /\ \A x \in DOMAIN users \ {u} : users'[x] = users[x]
                  /\ users'[u].googleId = p.id
                  /\ users'[u].provider = "google"
                  /\ users'[u].isEmailVerified
                  /\ users'[u].avatar =
                       IF p.photo = "none" THEN users[u].avatar ELSE p.photo
                  /\ users'[u].role = users[u].role
                  /\ users'[u].name = users[u].name
                  /\ users'[u].password = users[u].password
                  /\ users'[u].email = users[u].email
           ELSE /\ u = Len(users) + 1
                /\ DOMAIN users' = 1..u
                /\ \A x \in DOMAIN users : users'[x] = users[x]
                /\ users'[u] = [email |-> p.email, name |-> p.displayName,
                                password |-> "none", role |-> "STUDENT",
                                googleId |-> p.id, avatar |-> p.photo,
                                provider |-> "google", isEmailVerified |-> TRUE]]_vars

\* C19 witness: a tutor registered with a password has been linked to a
\* Google account, and a later sign-in with that account under another
\* email, the email of a second user, has returned the tutor unchanged.
C19_Witness ==
  /\ reply.op = "googleCallback"
  /\ Len(users) = 2
  /\ reply.target = 1
  /\ users[1].role = "TUTOR"
  /\ users[1].password = "hash"
  /\ users[1].googleId = reply.profile.id
  /\ users[1].email # reply.profile.email
  /\ users[2].email = reply.profile.email
  /\ users[2].googleId = "none"

\* C20 as stated: when the dashboard, reached from the callback page after
\* a successful callback, asks for the profile, the request carries the token
\* the callback stored and the browser is not sent to the login page.
C20_CallbackTokenAuthenticatesDashboard ==
  [][( /\ browser.location = "dashboard"
       /\ browser.status = "loading"
       /\ browser.previous = "callback"
       /\ reply'.op = "getProfile"
       /\ browser'.status = "ready" )
     => /\ reply'.token = browser.localStorage.token
        /\ browser'.location # "login"]_vars

\* the responses to the exams of a tutor
ResponsesOwnedBy(authorId) ==
  {r \in ResponseIds : AuthorOf(r) = authorId}

\* C21 as stated: when a summary page has just loaded its data, its
\* summaries are folded over every response of every exam of the tutor.
C21_SummariesCoverEveryResponse ==
  reply.op = "getExams" =>
    \A r \in ResponsesOwnedBy(browser.summary.user) :
      r \in browser.summary.allResponses

\* the rearrangements of a sequence
Rearrangements(seq) ==
  {[i \in 1..Len(seq) |-> seq[p[i]]] :
     p \in {f \in [1..Len(seq) -> 1..Len(seq)] :
              \A i, j \in 1..Len(seq) : i # j => f[i] # f[j]}}

\* C25: the answers emitted follow the exam's order field; when the
\* submitted answers name pairwise distinct questions, every rearrangement of
\* them is graded to the same answer list, score and totalPoints.
C25_GradingFollowsQuestionOrder ==
  Submitted =>
    /\ \A i, j \in 1..Len(reply.processedAnswers) :
         i < j => questions[reply.processedAnswers[i].questionId].order
                    < questions[reply.processedAnswers[j].questionId].order
    /\ (\A i, j \in 1..Len(reply.sent) :
          i # j => reply.sent[i].questionId # reply.sent[j].questionId)
       => \A other \in Rearrangements(reply.sent) :
            Grade(OrderedQuestions(SubmittedExam), Sanitized(other)) =
              [score |-> reply.score,
               totalPoints |-> reply.totalPoints,
               processedAnswers |-> reply.processedAnswers]

\* C25 witness: the answer to the second question was submitted before the
\* answer to the first, only the first is correct, and the answers were
\* emitted in question order.
C25_Witness ==
  /\ Submitted
  /\ Len(reply.sent) = 2
  /\ Len(reply.processedAnswers) = 2
  /\ reply.processedAnswers[1].questionId = reply.sent[2].questionId
  /\ reply.processedAnswers[2].questionId = reply.sent[1].questionId
  /\ questions[reply.sent[2].questionId].order = 1
  /\ reply.processedAnswers[1].isCorrect
  /\ ~reply.processedAnswers[2].isCorrect

\* C26: the order values of an exam's questions are 1..N, each once, for as
\* long as the exam exists, and the question with order i is the i-th question
\* given to createExam.
C26_OrderIsDenseAndFollowsTheBody ==
  /\ \A e \in ExamIds :
       /\ {questions[q].order : q \in QuestionsOf(e)}
            = 1..Cardinality(QuestionsOf(e))
       /\ \A q1, q2 \in QuestionsOf(e) :
            questions[q1].order = questions[q2].order => q1 = q2
  /\ (reply.op = "createExam" /\ reply.status = 201) =>
       /\ Cardinality(QuestionsOf(reply.target)) = Len(reply.questions)
       /\ \A i \in 1..Len(reply.questions) :
            \E q \in QuestionsOf(reply.target) :
              /\ questions[q].order = i
              /\ questions[q].type = reply.questions[i].type

\* C26 witness: an exam created with an essay question after a multiple
\* choice question.
C26_Witness ==
  /\ reply.op = "createExam"
  /\ reply.status = 201
  /\ Len(reply.questions) = 2
  /\ reply.questions[1].type = "MULTIPLE_CHOICE"
  /\ reply.questions[2].type = "ESSAY"

\* C27: a response just created by submitResponse has 0 <= score <=
\* totalPoints, in the row and in the reply, and the percentage returned lies
\* between 0 and 100.
C27_ScoreWithinTotal ==
  Submitted =>
    /\ responses[reply.responseId].score.kind = "number"
    /\ ~responses[reply.responseId].score.frac
    /\ 0 <= responses[reply.responseId].score.num
    /\ responses[reply.responseId].score.num
         <= responses[reply.responseId].totalPoints
    /\ 0 <= reply.score
    /\ reply.score <= reply.totalPoints
    /\ 0 <= reply.percentage
    /\ reply.percentage <= 100

\* C27 witness: the correct answer to the one question of the exam was
\* submitted twice, and the response has the full score once.
C27_Witness ==
  /\ Submitted
  /\ Len(reply.sent) = 2
  /\ reply.sent[1] = reply.sent[2]
  /\ Cardinality(QuestionsOf(SubmittedExam)) = 1
  /\ reply.processedAnswers # <<>>
  /\ reply.processedAnswers[1].isCorrect
  /\ responses[reply.responseId].score.num
       = responses[reply.responseId].totalPoints
  /\ reply.percentage = 100

\* the values the correctAnswer column can hold
StoredCorrectAnswers ==
  {Null, Str(<<"B">>), Str(<<"T", "r", "u", "e">>),
   Str(<<"F", "a", "l", "s", "e">>)}

\* C28: the exam returned by getPublicExam is the one it would return for
\* every exam that differs from the stored one in the correctAnswer values of
\* its questions only.
C28_PublicExamHidesCorrectAnswers ==
  (reply.op = "getPublicExam" /\ reply.status = 200) =>
    \E examId \in {reply.exam.id} :
      \E qs \in {OrderedQuestions(examId)} :
        \A other \in [1..Len(qs) -> StoredCorrectAnswers] :
          PublicExam(examId,
                     [i \in 1..Len(qs) |->
                        [qs[i] EXCEPT !.correctAnswer = other[i]]])
            = reply.exam

\* C28 witness: the public fetch of an exam with a true/false question whose
\* correct answer is True.
C28_Witness ==
  /\ reply.op = "getPublicExam"
  /\ reply.status = 200
  /\ reply.exam.questions # <<>>
  /\ \E q \in QuestionsOf(reply.exam.id) :
       /\ questions[q].type = "TRUE_FALSE"
       /\ questions[q].correctAnswer = Str(<<"T", "r", "u", "e">>)

\* C22: every step that adds an exam adds all the questions given with it,
\* and every step that adds a response adds all the answer rows graded for
\* it; no step adds questions or answers alone, and a transaction that failed
\* partway has added no row at all.
C22_WritesAreAllOrNothing ==
  [][ /\ \A e \in ExamIds' \ ExamIds :
           /\ reply'.op = "createExam"
           /\ reply'.status = 201
           /\ reply'.target = e
           /\ Cardinality({q \in QuestionIds' \ QuestionIds :
                             questions'[q].examId = e})
                = Len(reply'.questions)
      /\ \A q \in QuestionIds' \ QuestionIds :
           questions'[q].examId \in ExamIds' \ ExamIds
      /\ \A r \in ResponseIds' \ ResponseIds :
           \E i \in DOMAIN inFlight :
             /\ inFlight[i].pc = "transaction"
             /\ inFlight'[i].pc = "readBack"
             /\ inFlight'[i].responseId = r
             /\ Cardinality({a \in AnswerIds' \ AnswerIds :
                               answers'[a].responseId = r})
                  = Len(inFlight[i].graded.processedAnswers)
      /\ \A a \in AnswerIds' \ AnswerIds :
           answers'[a].responseId \in ResponseIds' \ ResponseIds
      /\ \A i \in DOMAIN inFlight :
           (inFlight[i].pc = "transaction" /\ inFlight'[i].status = 500) =>
             /\ responses' = responses
             /\ answers' = answers
      /\ (reply'.op = "createExam" /\ reply'.status = 500) =>
             /\ exams' = exams
             /\ questions' = questions
    ]_vars

\* C22 witness: the transaction of a submission with a graded answer has
\* failed while its exam exists, and there is no response row and no answer
\* row.
C22_Witness ==
  /\ \E i \in DOMAIN inFlight :
       /\ inFlight[i].status = 500
       /\ inFlight[i].examId \in ExamIds
       /\ inFlight[i].graded.processedAnswers # <<>>
  /\ reply.op = "submitResponse"
  /\ reply.status = 500
  /\ responses = <<>>
  /\ answers = <<>>
  /\ QuestionsOf(1) # {}

\* C23: no step commits a response for an exam that is deleted or inactive
\* when the response is committed.
C23_NoResponseForInactiveExam ==
  [][\A r \in ResponseIds' \ ResponseIds :
       /\ responses'[r].examId \in ExamIds
       /\ exams[responses'[r].examId].isActive]_vars

\* C24: the transaction of a submission adds one new response row and leaves
\* the other rows alone; its score, totalPoints and answer rows are the ones
\* grading that submission by itself yields, and they equal those of every
\* earlier submission of the same answers.
C24_SubmissionsAreIndependent ==
  [][\A i \in DOMAIN inFlight :
       (inFlight[i].pc = "transaction" /\ inFlight'[i].pc = "readBack") =>
         \E r \in {inFlight'[i].responseId} :
         \E alone \in {Grade(OrderedQuestions(inFlight[i].examId),
                              Sanitized(inFlight[i].sent))} :
           /\ r \notin ResponseIds
           /\ ResponseIds' = ResponseIds \cup {r}
           /\ \A other \in ResponseIds : responses'[other] = responses[other]
           /\ \A a \in AnswerIds : a \in AnswerIds' /\ answers'[a] = answers[a]
           /\ responses'[r] = [examId |-> inFlight[i].examId,
                               score |-> Int32(alone.score),
                               totalPoints |-> alone.totalPoints]
           /\ {[questionId |-> answers'[a].questionId,
                 answer |-> answers'[a].answer] :
                  a \in {x \in AnswerIds' : answers'[x].responseId = r}}
                = {[questionId |-> alone.processedAnswers[k].questionId,
                    answer |-> alone.processedAnswers[k].answer] :
                     k \in 1..Len(alone.processedAnswers)}
           /\ \A j \in DOMAIN inFlight :
                ( /\ j # i
                  /\ inFlight[j].sent = inFlight[i].sent
                  /\ inFlight[j].responseId \in ResponseIds ) =>
                  /\ inFlight[j].responseId # r
                  /\ responses'[r].score = responses[inFlight[j].responseId].score
                  /\ responses'[r].totalPoints
                       = responses[inFlight[j].responseId].totalPoints
                  /\ inFlight[i].graded.processedAnswers
                       = inFlight[j].graded.processedAnswers
    ]_vars

\* C24 witness: two submissions were in flight together, one with the correct
\* answer and one with a wrong answer to the same question; both are
\* recorded, with different scores.
C24_Witness ==
  \E i, j \in DOMAIN inFlight :
    /\ i < j
    /\ inFlight[i].pc = "done"
    /\ inFlight[j].pc = "readBack"
    /\ inFlight[i].status = 201
    /\ inFlight[j].responseId < inFlight[i].responseId
    /\ inFlight[i].responseId \in ResponseIds
    /\ inFlight[j].responseId \in ResponseIds
    /\ responses[inFlight[i].responseId].score
         # responses[inFlight[j].responseId].score

\* C29: after every step no two users share an email and no two users share
\* a googleId, and no step gives a user that has a googleId another one.
C29_CallbacksKeepAccountsApart ==
  [][ /\ \A x, y \in DOMAIN users' :
           x # y =>
             /\ users'[x].email # users'[y].email
             /\ users'[x].googleId # "none" =>
                  users'[x].googleId # users'[y].googleId
      /\ \A x \in DOMAIN users :
           users[x].googleId # "none" =>
             users'[x].googleId = users[x].googleId
    ]_vars

\* C30: in one session on the exam page at most one submission request is
\* sent and at most one response is recorded.
C30_OneSubmissionPerSession ==
  /\ Len(browser.examPage.posted) <= 1
  /\ Cardinality(ResponseIds) <= 1

====
